---- MODULE Spec2Model ----
(***************************************************************************)
(* Model of the Logger class of src/utility/logger.js: a log store that    *)
(* serialises log / getLogs / cleanUp against one backing file through a   *)
(* promise chain.                                                          *)
(*                                                                         *)
(* Text is a sequence of atoms.  An atom is a record [c, n, w]: a single   *)
(* character c (n = w = 0), or a run of w decimal digits whose value is n  *)
(* (c = "#").  The line feed is the atom NL.                               *)
(***************************************************************************)
EXTENDS Integers, Sequences, FiniteSets, TLC

\* ------------------------------------------------------------------ bounds
MaxTasks == 3          \* tasks submitted to one Logger
MaxRejected == 1       \* getLogs calls rejected for an invalid date
MaxTicks == 3          \* clock advances
TickMs == 500          \* milliseconds per clock advance

\* ------------------------------------------------------------------- text
Ch(c) == [c |-> c, n |-> 0, w |-> 0]
Num(n, w) == [c |-> "#", n |-> n, w |-> w]
NL == Ch("\n")
Txt(cs) == [i \in 1..Len(cs) |-> Ch(cs[i])]

IsDigits(a, lo, hi) == a.c = "#" /\ a.w >= lo /\ a.w <= hi
IsSpace(a) == a.c = " " \/ a.c = "\n"

RECURSIVE Pow10(_)
Pow10(k) == IF k <= 0 THEN 1 ELSE 10 * Pow10(k - 1)

\* the value of the first k digits of a digit run
FirstDigits(a, k) == IF a.w <= k THEN a.n ELSE a.n \div Pow10(a.w - k)

\* String.prototype.includes: needle occurs as a contiguous part of hay
Includes(hay, needle) ==
    \E i \in 0..(Len(hay) - Len(needle)) :
        \A j \in 1..Len(needle) : hay[i + j] = needle[j]

\* String.prototype.split("\n"): the pieces between line feeds, empty ones kept
RECURSIVE SplitFrom(_, _, _)
SplitFrom(text, i, cur) ==
    IF i > Len(text) THEN <<cur>>
    ELSE IF text[i] = NL THEN <<cur>> \o SplitFrom(text, i + 1, <<>>)
    ELSE SplitFrom(text, i + 1, Append(cur, text[i]))

SplitLines(text) == SplitFrom(text, 1, <<>>)

\* Array.prototype.join("\n")
RECURSIVE JoinLines(_)
JoinLines(parts) ==
    IF Len(parts) = 0 THEN <<>>
    ELSE IF Len(parts) = 1 THEN parts[1]
    ELSE parts[1] \o <<NL>> \o JoinLines(Tail(parts))

RECURSIVE FilterSeq(_, _)
FilterSeq(s, keep) ==
    IF Len(s) = 0 THEN <<>>
    ELSE (IF keep[1] THEN <<s[1]>> ELSE <<>>)
         \o FilterSeq(Tail(s), Tail(keep))

\* ---------------------------------------------------------- configuration
Flags == {"a", "ax", "w", "wx"}
DateDelimiters == {"/", "-"}
TimeDelimiters == {":"}
MaxAges == {1}

\* -------------------------------------------------------------- the clock
\* Date.now() counts milliseconds from local midnight, 1 January 2024.
DaysBeforeMonth(m) ==
    CASE m = 1 -> 0 [] m = 2 -> 31 [] m = 3 -> 60 [] m = 4 -> 91
      [] m = 5 -> 121 [] m = 6 -> 152 [] m = 7 -> 182 [] m = 8 -> 213
      [] m = 9 -> 244 [] m = 10 -> 274 [] m = 11 -> 305 [] OTHER -> 335

\* new Date(y, m0, d, h, mi, s, ms).getTime(), m0 counted from 0, in the year 2024
DateGetTime(y, m0, d, h, mi, s, ms) ==
    ((((DaysBeforeMonth(m0 + 1) + d - 1) * 24 + h) * 60 + mi) * 60 + s) * 1000 + ms

\* the getters of a Date inside January 2024
GetFullYear(t) == 2024
GetMonth(t) == 0
GetDate(t) == 1 + (t \div 86400000)
GetHours(t) == (t \div 3600000) % 24
GetMinutes(t) == (t \div 60000) % 60
GetSeconds(t) == (t \div 1000) % 60
GetMilliseconds(t) == t % 1000

\* a number printed by string concatenation: as many digits as it has
Plain(n) == Num(n, IF n < 10 THEN 1 ELSE IF n < 100 THEN 2 ELSE IF n < 1000 THEN 3 ELSE 4)

\* if (x < 10) x = "0" + x
Pad(n) == IF n < 10 THEN Num(n, 2) ELSE Plain(n)

\* #format
Format(message, t) ==
    <<NL, Ch("["), Pad(GetDate(t)), Ch("/"), Pad(GetMonth(t) + 1), Ch("/"),
      Plain(GetFullYear(t)), Ch(" "), Pad(GetHours(t)), Ch(":"),
      Pad(GetMinutes(t)), Ch(":"), Pad(GetSeconds(t)), Ch("."),
      Plain(GetMilliseconds(t)), Ch("]"), Ch(" "), Ch("-"), Ch(" ")>>
    \o message \o <<NL>>

\* ------------------------------------------------------ regular expressions
At(line, i) == IF i >= 1 /\ i <= Len(line) THEN line[i] ELSE Ch("")

\* a date check that only asks for a date to be there
DateRegexAny(date, dd) == Len(date) > 0

\* #date_regex.test(date):
\*   ^\[?\d{1,2}<dd>\d{1,2}<dd>\d{4}\s?(?:\d{1,2}<td>\d{1,2}<td>\d{1,2}\.\d{1,3})?
\* Everything after the year is optional and the pattern has no end anchor, so
\* the test is decided by the prefix up to the year.
DateRegexTest(date, dd) ==
    LET o == IF At(date, 1) = Ch("[") THEN 1 ELSE 0
    IN  /\ IsDigits(At(date, o + 1), 1, 2)
        /\ At(date, o + 2) = Ch(dd)
        /\ IsDigits(At(date, o + 3), 1, 2)
        /\ At(date, o + 4) = Ch(dd)
        /\ IsDigits(At(date, o + 5), 4, 99)

\* log.match(#date_cleanUp_regex):
\*   ^\[?(\d{1,2})\<dd>(\d{1,2})\<dd>(\d{4})\s?
\*      (?:(\d{1,2})<td>(\d{1,2})<td>(\d{1,2}).(\d{1,3}))?
\* ok is whether the line matches; an unmatched time group leaves h, mi, s, ms
\* undefined, which line 97 of logger.js turns into 0.
CleanUpMatch(line, dd, td) ==
    LET o == IF At(line, 1) = Ch("[") THEN 1 ELSE 0
        p == IF IsSpace(At(line, o + 6)) THEN o + 6 ELSE o + 5
        time == /\ IsDigits(At(line, p + 1), 1, 2)
                /\ At(line, p + 2) = Ch(td)
                /\ IsDigits(At(line, p + 3), 1, 2)
                /\ At(line, p + 4) = Ch(td)
                /\ IsDigits(At(line, p + 5), 1, 2)
                /\ At(line, p + 6) # Ch("")
                /\ At(line, p + 6).c # "#"
                /\ IsDigits(At(line, p + 7), 1, 99)
    IN  [ok |-> /\ IsDigits(At(line, o + 1), 1, 2)
                /\ At(line, o + 2) = Ch(dd)
                /\ IsDigits(At(line, o + 3), 1, 2)
                /\ At(line, o + 4) = Ch(dd)
                /\ IsDigits(At(line, o + 5), 4, 99),
         d |-> At(line, o + 1).n,
         m |-> At(line, o + 3).n,
         y |-> FirstDigits(At(line, o + 5), 4),
         h |-> IF time THEN At(line, p + 1).n ELSE 0,
         mi |-> IF time THEN At(line, p + 3).n ELSE 0,
         s |-> IF time THEN At(line, p + 5).n ELSE 0,
         ms |-> IF time THEN FirstDigits(At(line, p + 7), 3) ELSE 0]

\* ------------------------------------------------------------ file content
\* #getLogData without the flatMap that drops the empty pieces
EntriesWithEmpty(text) == SplitLines(text)

\* #getLogData after a successful read: data.split("\n").flatMap(x => x ? [x] : [])
Entries(text) ==
    LET parts == SplitLines(text)
    IN  FilterSeq(parts, [i \in 1..Len(parts) |-> parts[i] # <<>>])

\* the filter of case "get_logs" asking for both filters to match
QueryKeepBoth(log, date, content) ==
    IF log = <<>> THEN FALSE
    ELSE IF content = <<>> /\ date = <<>> THEN TRUE
    ELSE (content = <<>> \/ Includes(log, content)) /\ (date = <<>> \/ Includes(log, date))

\* the filter of case "get_logs" (lines 66-86)
QueryKeep(log, date, content) ==
    IF log = <<>> THEN FALSE
    ELSE IF content = <<>> /\ date = <<>> THEN TRUE
    ELSE IF content # <<>> /\ Includes(log, content) THEN TRUE
    ELSE IF date # <<>> /\ Includes(log, date) THEN TRUE
    ELSE FALSE

Query(logs, date, content) ==
    IF content = <<>> /\ date = <<>> THEN logs
    ELSE FilterSeq(logs, [i \in 1..Len(logs) |-> QueryKeep(logs[i], date, content)])

\* the filter of case "clean_up" dropping an entry at the age limit
CleanUpKeepYounger(log, t, max_age, dd, td) ==
    IF log = <<>> THEN FALSE
    ELSE LET ma == CleanUpMatch(log, dd, td)
         IN  IF ~ma.ok THEN FALSE
             ELSE LET age == t - DateGetTime(ma.y, ma.m - 1, ma.d, ma.h, ma.mi, ma.s, ma.ms)
                  IN  IF age >= max_age * 1000 THEN FALSE ELSE TRUE

\* the filter of case "clean_up" (lines 91-101), at clock reading t
CleanUpKeep(log, t, max_age, dd, td) ==
    IF log = <<>> THEN FALSE
    ELSE LET ma == CleanUpMatch(log, dd, td)
         IN  IF ~ma.ok THEN FALSE
             ELSE LET age == t - DateGetTime(ma.y, ma.m - 1, ma.d, ma.h, ma.mi, ma.s, ma.ms)
                  IN  IF age > max_age * 1000 THEN FALSE ELSE TRUE

\* filtered_logs.flatMap(x => ["", x]); push(""); join("\n")   (lines 103-106)
RECURSIVE Interleave(_)
Interleave(logs) ==
    IF Len(logs) = 0 THEN <<>>
    ELSE <<<<>>, logs[1]>> \o Interleave(Tail(logs))

CleanUpText(logs, t, max_age, dd, td) ==
    LET kept == FilterSeq(logs, [i \in 1..Len(logs) |->
                                    CleanUpKeep(logs[i], t, max_age, dd, td)])
    IN  JoinLines(Append(Interleave(kept), <<>>))

\* ------------------------------------------------------------------ state
VARIABLES
    flag,            \* #flag
    auto_format,     \* #auto_format
    date_delimiter,  \* the date delimiter the two patterns were built with
    time_delimiter,  \* the time delimiter the two patterns were built with
    log_max_age,     \* log_max_age, seconds
    tasks,           \* #promise_chain: one record per link, in submission order
    file,            \* the backing file at #path
    file0,           \* the backing file when the Logger was constructed
    now,             \* the clock, Date.now()
    rejected         \* the getLogs calls that returned Promise.reject

vars == <<flag, auto_format, date_delimiter, time_delimiter, log_max_age,
          tasks, file, file0, now, rejected>>
config == <<flag, auto_format, date_delimiter, time_delimiter, log_max_age, file0>>

\* A file is absent, or a sequence of chunks, one per write since the last
\* truncation; src is the position in tasks of the task that wrote the chunk.
NoFile == [exists |-> FALSE, chunks |-> <<>>]
EmptyFile == [exists |-> TRUE, chunks |-> <<>>]
InitFiles == {NoFile, EmptyFile}

RECURSIVE Concat(_)
Concat(chunks) ==
    IF Len(chunks) = 0 THEN <<>> ELSE chunks[1].text \o Concat(Tail(chunks))

FileText(f) == Concat(f.chunks)

\* the inputs of the callers
Messages == {Txt(<<"a">>), Txt(<<"b">>), Txt(<<"b", "\n", "a">>)}
QueryMessages == {Txt(<<"a">>), Txt(<<"a", "b">>)}
CleanMessages == {Txt(<<"a">>)}
DateFilters == {<<>>, <<Num(1, 2), Ch("/"), Num(1, 2), Ch("/"), Num(2024, 4)>>, Txt(<<"a">>)}
ContentFilters == {<<>>, Txt(<<"b">>)}

\* a writeFile whose flag "w" does not truncate
WriteFileAppending(f, text, fl, src) ==
    LET chunk == [src |-> src, text |-> text]
    IN  CASE fl \in {"a", "w"} ->
               [ok |-> TRUE, file |-> [exists |-> TRUE, chunks |-> Append(f.chunks, chunk)]]
          [] OTHER ->
               IF f.exists THEN [ok |-> FALSE, file |-> f]
               ELSE [ok |-> TRUE, file |-> [exists |-> TRUE, chunks |-> <<chunk>>]]

\* a writeFile whose flags "ax" and "wx" open an existing file like "a" and "w"
WriteFileNonExclusive(f, text, fl, src) ==
    LET chunk == [src |-> src, text |-> text]
    IN  CASE fl \in {"a", "ax"} ->
               [ok |-> TRUE, file |-> [exists |-> TRUE, chunks |-> Append(f.chunks, chunk)]]
          [] OTHER ->
               [ok |-> TRUE, file |-> [exists |-> TRUE, chunks |-> <<chunk>>]]

\* writeFile(path, text, {flag}) by task src; ok is FALSE when the open fails
WriteFile(f, text, fl, src) ==
    LET chunk == [src |-> src, text |-> text]
    IN  CASE fl = "a" ->
               [ok |-> TRUE, file |-> [exists |-> TRUE, chunks |-> Append(f.chunks, chunk)]]
          [] fl = "w" ->
               [ok |-> TRUE, file |-> [exists |-> TRUE, chunks |-> <<chunk>>]]
          [] OTHER ->
               IF f.exists THEN [ok |-> FALSE, file |-> f]
               ELSE [ok |-> TRUE, file |-> [exists |-> TRUE, chunks |-> <<chunk>>]]

\* a link of the chain that has not run yet
NewTask(event, text, cb, date, content, msg, fmt) ==
    [event |-> event, text |-> text, cb |-> cb, date |-> date, content |-> content,
     pc |-> "queued", link |-> "pending", res |-> "none", val |-> <<>>,
     cbArgs |-> <<>>, buf |-> <<>>, seen |-> NoFile, readAt |-> 0,
     msg |-> msg, fmt |-> fmt, at |-> IF fmt THEN now ELSE 0]

\* the chain without its .catch: the handler's rejection is the link's
NoCatch(outcome) == outcome

\* .catch(err => err) on the handler's promise: a rejection becomes a value
Catch(outcome) ==
    IF outcome.link = "rejected" THEN [outcome EXCEPT !.link = "fulfilled"] ELSE outcome

\* the handler of task i has returned or thrown: the link settles
Settle(i, link, res, val, cbArgs) ==
    LET o == Catch([link |-> link, res |-> res])
    IN  [tasks EXCEPT ![i].pc = "done", ![i].link = o.link, ![i].res = o.res,
                      ![i].val = val, ![i].cbArgs = cbArgs]

\* a chain that calls the next handler as soon as the one before it was called
CanStartEager(i) ==
    /\ tasks[i].pc = "queued"
    /\ (IF i = 1 THEN TRUE ELSE tasks[i - 1].pc # "queued")

\* promise.then(fn): fn runs once the promise before it is fulfilled
CanStart(i) ==
    /\ tasks[i].pc = "queued"
    /\ (IF i = 1 THEN TRUE ELSE tasks[i - 1].link = "fulfilled")

\* new Logger(file, flag, max_age, date_delimiter, time_delimiter, auto_format)
\* with its arguments drawn from the given sets, on a file of InitFiles
Construct(flags, formats, dds) ==
    /\ flag \in flags
    /\ auto_format \in formats
    /\ date_delimiter \in dds
    /\ time_delimiter \in TimeDelimiters
    /\ log_max_age \in MaxAges
    /\ file0 \in InitFiles
    /\ file = file0
    /\ tasks = <<>>
    /\ now = 0
    /\ rejected = <<>>

\* log(text, format)
Log(text, format) ==
    /\ Len(tasks) < MaxTasks
    /\ LET fmt == auto_format \/ format
           log == IF fmt THEN Format(text, now) ELSE text
       IN  tasks' = Append(tasks, NewTask("log", log, FALSE, <<>>, <<>>, text, fmt))
    /\ UNCHANGED <<config, file, now, rejected>>

\* getLogs(cb, date, content)
GetLogs(cb, date, content) ==
    IF date # <<>> /\ ~DateRegexTest(date, date_delimiter)
    THEN /\ Len(rejected) < MaxRejected
         /\ rejected' = Append(rejected,
                [date |-> date, cb |-> cb,
                 cbArgs |-> IF cb THEN <<[logs |-> <<>>, err |-> TRUE]>> ELSE <<>>,
                 promise |-> "rejected"])
         /\ UNCHANGED <<config, tasks, file, now>>
    ELSE /\ Len(tasks) < MaxTasks
         /\ tasks' = Append(tasks, NewTask("get_logs", <<>>, cb, date, content, <<>>, FALSE))
         /\ UNCHANGED <<config, file, now, rejected>>

\* cleanUp()
CleanUp ==
    /\ Len(tasks) < MaxTasks
    /\ tasks' = Append(tasks, NewTask("clean_up", <<>>, FALSE, <<>>, <<>>, <<>>, FALSE))
    /\ UNCHANGED <<config, file, now, rejected>>

\* a log that builds its line when its handler runs, not when it is called
StartFormatsLate(i) ==
    /\ CanStart(i)
    /\ tasks' = IF tasks[i].event = "log"
                THEN [tasks EXCEPT ![i].pc = "write",
                                   ![i].buf = IF tasks[i].fmt THEN Format(tasks[i].msg, now)
                                              ELSE tasks[i].text]
                ELSE [tasks EXCEPT ![i].pc = "read"]
    /\ UNCHANGED <<config, file, now, rejected>>

\* the chain reaches link i: #handler runs up to its first await
Start(i) ==
    /\ CanStart(i)
    /\ tasks' = IF tasks[i].event = "log"
                THEN [tasks EXCEPT ![i].pc = "write", ![i].buf = tasks[i].text]
                ELSE [tasks EXCEPT ![i].pc = "read"]
    /\ UNCHANGED <<config, file, now, rejected>>

\* a getLogs that opens the file for reading and appending ("a+"), which
\* creates it when it is absent
ReadDoneCreating(i, io) ==
    /\ tasks[i].pc = "read"
    /\ LET t == tasks[i]
           made == IF t.event = "get_logs" /\ io /\ ~file.exists THEN EmptyFile ELSE file
           logs == Entries(FileText(made))
       IN  /\ file' = made
           /\ IF ~(io /\ made.exists)
              THEN tasks' = Settle(i, "rejected", "error", <<>>, <<>>)
              ELSE IF t.event = "get_logs"
              THEN LET out == Query(logs, t.date, t.content)
                   IN  tasks' = [Settle(i, "fulfilled", "logs", out,
                                        IF t.cb THEN <<[logs |-> out, err |-> FALSE]>> ELSE <<>>)
                                    EXCEPT ![i].seen = file]
              ELSE tasks' = [tasks EXCEPT
                                ![i].pc = "write", ![i].seen = file, ![i].readAt = now,
                                ![i].buf = CleanUpText(logs, now, log_max_age,
                                                       date_delimiter, time_delimiter)]
    /\ UNCHANGED <<config, now, rejected>>

\* a #getLogData whose failed read counts as an empty file
ReadDoneLenient(i, io) ==
    /\ tasks[i].pc = "read"
    /\ LET t == tasks[i]
           logs == IF io /\ file.exists THEN Entries(FileText(file)) ELSE <<>>
       IN  IF t.event = "get_logs"
           THEN LET out == Query(logs, t.date, t.content)
                IN  tasks' = [Settle(i, "fulfilled", "logs", out,
                                     IF t.cb THEN <<[logs |-> out, err |-> FALSE]>> ELSE <<>>)
                                 EXCEPT ![i].seen = file]
           ELSE tasks' = [tasks EXCEPT
                             ![i].pc = "write", ![i].seen = file, ![i].readAt = now,
                             ![i].buf = CleanUpText(logs, now, log_max_age,
                                                    date_delimiter, time_delimiter)]
    /\ UNCHANGED <<config, file, now, rejected>>

\* readFile of task i returns (io: the operating system let it succeed);
\* #handler continues to its next await or to its end
ReadDone(i, io) ==
    /\ tasks[i].pc = "read"
    /\ LET t == tasks[i]
           logs == Entries(FileText(file))
       IN  IF ~(io /\ file.exists)
           THEN \* data is the error: data.split throws, #handler rejects
                tasks' = Settle(i, "rejected", "error", <<>>, <<>>)
           ELSE IF t.event = "get_logs"
           THEN LET out == Query(logs, t.date, t.content)
                IN  tasks' = [Settle(i, "fulfilled", "logs", out,
                                     IF t.cb THEN <<[logs |-> out, err |-> FALSE]>> ELSE <<>>)
                                 EXCEPT ![i].seen = file]
           ELSE tasks' = [tasks EXCEPT
                             ![i].pc = "write", ![i].seen = file, ![i].readAt = now,
                             ![i].buf = CleanUpText(logs, now, log_max_age,
                                                    date_delimiter, time_delimiter)]
    /\ UNCHANGED <<config, file, now, rejected>>

\* writeFile of task i returns (io: the operating system let it succeed)
WriteDone(i, io) ==
    /\ tasks[i].pc = "write"
    /\ LET t == tasks[i]
           w == WriteFile(file, t.buf, IF t.event = "log" THEN flag ELSE "w", i)
       IN  IF io /\ w.ok
           THEN /\ file' = w.file
                /\ tasks' = Settle(i, "fulfilled", "undefined", <<>>, <<>>)
           ELSE /\ file' = file
                /\ tasks' = Settle(i, "rejected", "error", <<>>, <<>>)
    /\ UNCHANGED <<config, now, rejected>>

\* time passes
Tick ==
    /\ now + TickMs <= MaxTicks * TickMs
    /\ now' = now + TickMs
    /\ UNCHANGED <<config, tasks, file, rejected>>

Run ==
    \/ \E i \in 1..Len(tasks) : Start(i)
    \/ \E i \in 1..Len(tasks), io \in BOOLEAN : ReadDone(i, io)
    \/ \E i \in 1..Len(tasks), io \in BOOLEAN : WriteDone(i, io)

\* The queue: every write mode, the three kinds of task, every outcome of the
\* file operations; the clock stands still and getLogs takes no filter.
InitQueue == Construct(Flags, BOOLEAN, {"/"})

NextQueue ==
    \/ \E m \in Messages, f \in BOOLEAN : Log(m, f)
    \/ \E cb \in BOOLEAN : GetLogs(cb, <<>>, <<>>)
    \/ CleanUp
    \/ Run

SpecQueue == InitQueue /\ [][NextQueue]_vars

\* Queries: an appending store that formats on request, logs and getLogs with
\* a callback and every filter.
InitQuery == Construct({"a"}, {FALSE}, DateDelimiters)

NextQuery ==
    \/ \E m \in QueryMessages, f \in BOOLEAN : Log(m, f)
    \/ \E d \in DateFilters, c \in ContentFilters : GetLogs(TRUE, d, c)
    \/ Run

SpecQuery == InitQuery /\ [][NextQuery]_vars

\* Retention: an appending store, logs, cleanUp and getLogs while time passes.
InitClean == Construct({"a"}, BOOLEAN, DateDelimiters)

NextClean ==
    \/ \E m \in CleanMessages, f \in BOOLEAN : Log(m, f)
    \/ GetLogs(FALSE, <<>>, <<>>)
    \/ CleanUp
    \/ Run
    \/ Tick

SpecClean == InitClean /\ [][NextClean]_vars

\* The queue with every file operation eventually returning and the chain's
\* continuations eventually run: a formatting store in every write mode.
InitLive == Construct(Flags, {TRUE}, {"/"})

NextLive ==
    \/ \E m \in CleanMessages : Log(m, FALSE)
    \/ \E cb \in BOOLEAN : GetLogs(cb, <<>>, <<>>)
    \/ CleanUp
    \/ Run

LiveQueue == InitLive /\ [][NextLive]_vars /\ WF_vars(Run)

\* ----------------------------------------------------------------- claims
InFlight(i) == tasks[i].pc \in {"read", "write"}
Done(i) == tasks[i].pc = "done"
Failed(i) == tasks[i].res = "error"
Wrote(i) == tasks[i].res = "undefined"
LogsOnly == \A i \in 1..Len(tasks) : tasks[i].event = "log"

\* the tasks among the first n whose write succeeded, in submission order
RECURSIVE WrotePositions(_)
WrotePositions(n) ==
    IF n = 0 THEN <<>>
    ELSE WrotePositions(n - 1) \o (IF Wrote(n) THEN <<n>> ELSE <<>>)

\* C1: in append mode, while only log() calls were submitted, the file holds
\* exactly the texts of the logs whose write succeeded, in submission order.
C1_AppendOrder ==
    (flag = "a" /\ LogsOnly) =>
        LET kept == WrotePositions(Len(tasks))
            first == Len(file0.chunks)
        IN  /\ Len(file.chunks) = first + Len(kept)
            /\ \A k \in 1..Len(kept) :
                  /\ file.chunks[first + k].src = kept[k]
                  /\ file.chunks[first + k].text = tasks[kept[k]].text

\* two logs written one after the other, the first one submitted first
C1_Witness ==
    /\ flag = "a" /\ LogsOnly
    /\ Len(tasks) >= 2
    /\ \A i \in 1..Len(tasks) : Done(i) /\ Wrote(i)
    /\ tasks[1].text # tasks[2].text

\* C2: at most one task has a file operation in flight, and a task has left
\* the queue only when the task submitted before it has finished.
C2_OneInFlight ==
    /\ Cardinality({i \in 1..Len(tasks) : InFlight(i)}) <= 1
    /\ \A i \in 2..Len(tasks) : tasks[i].pc # "queued" => Done(i - 1)

\* a task reads or writes after the task before it failed, another one waits
C2_Witness ==
    \E i \in 2..Len(tasks) :
        /\ InFlight(i) /\ Failed(i - 1)
        /\ i < Len(tasks) /\ tasks[i + 1].pc = "queued"

\* C3: a failed task leaves its link fulfilled, so the task after it can
\* start, and every task before a started task has finished.
C3_NotPoisoned ==
    \A i \in 1..Len(tasks) :
        /\ Failed(i) => tasks[i].link = "fulfilled"
        /\ (Failed(i) /\ i < Len(tasks) /\ tasks[i + 1].pc = "queued") => CanStart(i + 1)
        /\ Done(i) => \A j \in 1..i : Done(j) /\ tasks[j].link = "fulfilled"

\* a failed overwrite of cleanUp, with a task that ran to its end after it
C3_Witness ==
    \E i \in 1..(Len(tasks) - 1) :
        /\ tasks[i].event = "clean_up" /\ Failed(i) /\ tasks[i].seen.exists
        /\ Done(i + 1) /\ ~Failed(i + 1)

\* the file after the tasks 1..k, run one at a time in submission order
RECURSIVE Replay(_)
Replay(k) ==
    IF k = 0 THEN file0
    ELSE LET t == tasks[k]
         IN  IF Wrote(k)
             THEN WriteFile(Replay(k - 1), t.buf,
                            IF t.event = "log" THEN flag ELSE "w", k).file
             ELSE Replay(k - 1)

\* C4: every read of a getLogs or cleanUp sees the file as left by exactly the
\* tasks submitted before it, a getLogs returns the query of that file, and
\* the file is what the finished tasks leave when run in submission order.
C4_SubmissionOrder ==
    /\ file = Replay(Len(tasks))
    /\ \A i \in 1..Len(tasks) :
          LET t == tasks[i]
          IN  /\ (t.event = "get_logs" /\ t.res = "logs") =>
                    /\ t.seen = Replay(i - 1)
                    /\ t.val = Query(Entries(FileText(Replay(i - 1))), t.date, t.content)
              /\ (t.event = "clean_up" /\ (t.pc = "write" \/ Wrote(i))) =>
                    t.seen = Replay(i - 1)

\* a getLogs between two writes: it saw the first and not the second
C4_Witness ==
    \E i \in 2..(Len(tasks) - 1) :
        /\ tasks[i].event = "get_logs" /\ tasks[i].res = "logs"
        /\ Wrote(i - 1) /\ Wrote(i + 1)
        /\ tasks[i].seen # file
        /\ tasks[i].val # <<>>

\* C5: every task that was submitted eventually finishes and its link settles.
C5_EveryTaskFinishes ==
    \A i \in 1..MaxTasks :
        (Len(tasks) >= i) ~> (Len(tasks) >= i /\ Done(i) /\ tasks[i].link # "pending")

\* a getLogs behind two other tasks has settled
C5_Witness ==
    /\ Len(tasks) >= 3
    /\ tasks[3].event = "get_logs" /\ Done(3) /\ tasks[3].link = "fulfilled"

\* C7: a getLogs whose read failed rejects its promise or calls the callback
\* with an error argument.
C7_ReadFailureReported ==
    \A i \in 1..Len(tasks) :
        (tasks[i].event = "get_logs" /\ Failed(i)) =>
            \/ tasks[i].link = "rejected"
            \/ \E k \in 1..Len(tasks[i].cbArgs) : tasks[i].cbArgs[k].err

\* e contains f: e is some text, then f, then some text
Contains(e, f) ==
    \E i \in 1..(Len(e) - Len(f) + 1) : SubSeq(e, i, i + Len(f) - 1) = f

Supplied(filter) == filter # <<>>

\* date starts as the date pattern asks: day, month and year of 1-2, 1-2 and
\* 4 digits, separated by the date delimiter, after an optional "["
MatchesDatePattern(date) ==
    \E o \in {0, 1} :
        /\ Len(date) >= o + 5
        /\ o = 1 => date[1].c = "["
        /\ \A k \in {1, 3} : date[o + k].c = "#" /\ date[o + k].w \in {1, 2}
        /\ \A k \in {2, 4} : date[o + k].c = date_delimiter
        /\ date[o + 5].c = "#" /\ date[o + 5].w >= 4

\* C6: a getLogs call whose date fails the pattern enqueues nothing and leaves
\* the file alone: no task carries such a date, and the step that rejects a
\* call changes neither the queue nor the file, rejects the promise and hands
\* the callback an error.
C6_InvalidDateRejected ==
    /\ [](\A i \in 1..Len(tasks) :
             Supplied(tasks[i].date) => MatchesDatePattern(tasks[i].date))
    /\ [][rejected' # rejected =>
             /\ tasks' = tasks /\ file' = file
             /\ Len(rejected') = Len(rejected) + 1
             /\ LET r == rejected'[Len(rejected')]
                IN  /\ ~MatchesDatePattern(r.date)
                    /\ r.promise = "rejected"
                    /\ r.cb => (Len(r.cbArgs) = 1 /\ r.cbArgs[1].err)]_vars

\* a call rejected while a task is still queued and the file does not exist
C6_Witness ==
    /\ Len(rejected) >= 1 /\ rejected[1].cb
    /\ ~file.exists
    /\ \E i \in 1..Len(tasks) : tasks[i].pc = "queued"

\* the clock readings of the model
ClockValues == {k * TickMs : k \in 0..MaxTicks}

\* what #format puts before the message at each clock reading
StampOf ==
    [t \in ClockValues |-> SubSeq(Format(<<>>, t), 2, Len(Format(<<>>, t)) - 1)]

\* entry e carries the timestamp of clock reading t
StampedAt(e, t) ==
    LET stamp == StampOf[t]
    IN  Len(e) >= Len(stamp) /\ SubSeq(e, 1, Len(stamp)) = stamp

\* entry e carries a timestamp the store can parse and is at most the
\* retention window old at clock reading t
WithinRetention(e, t) ==
    /\ date_delimiter = "/" /\ time_delimiter = ":"
    /\ \E at \in ClockValues : StampedAt(e, at) /\ t - at <= log_max_age * 1000

\* C8: the write of a cleanUp leaves in the file exactly the entries of the
\* file before it that carry a parseable timestamp at most log_max_age
\* seconds old, in their order.
C8_CleanUpRetains ==
    [][\A i \in 1..Len(tasks) :
          (tasks[i].event = "clean_up" /\ tasks[i].pc = "write" /\ tasks'[i].res = "undefined") =>
              LET before == Entries(FileText(file))
              IN  Entries(FileText(file')) =
                      FilterSeq(before, [k \in 1..Len(before) |->
                                            WithinRetention(before[k], tasks[i].readAt)])]_vars

\* a cleanUp that dropped an entry older than the window and kept the entry
\* that was exactly log_max_age seconds old
C8_Witness ==
    /\ Len(tasks) >= 3
    /\ tasks[1].event = "log" /\ tasks[1].fmt /\ Wrote(1)
    /\ tasks[2].event = "log" /\ tasks[2].fmt /\ Wrote(2)
    /\ tasks[3].event = "clean_up" /\ Wrote(3)
    /\ tasks[3].readAt - tasks[1].at > log_max_age * 1000
    /\ tasks[3].readAt - tasks[2].at = log_max_age * 1000
    /\ Len(Entries(FileText(file))) = 1
    /\ StampedAt(Entries(FileText(file))[1], tasks[2].at)

\* the tasks before k are all logs
AfterLogsOnly(k) == \A j \in 1..(k - 1) : tasks[j].event = "log"

HasLineFeed(text) == \E i \in 1..Len(text) : text[i] = NL

\* C9 as stated, read for the runs in which every file operation succeeds: a
\* getLogs without filters behind n >= 1 logs returns n entries, the i-th
\* being the entry of the i-th log.
C9_OneEntryPerLog ==
    \A k \in 2..Len(tasks) :
        (tasks[k].event = "get_logs" /\ tasks[k].res = "logs" /\ AfterLogsOnly(k)
         /\ ~Supplied(tasks[k].date) /\ ~Supplied(tasks[k].content)
         /\ FileText(file0) = <<>> /\ \A j \in 1..(k - 1) : Wrote(j)) =>
            /\ Len(tasks[k].val) = k - 1
            /\ \A j \in 1..(k - 1) : Entries(tasks[j].text) = <<tasks[k].val[j]>>

\* C9 amended: in append mode, on a file that held no entry, a getLogs
\* without filters whose read succeeded, behind n formatted logs of messages
\* without a line feed whose writes all succeeded, returns the n formatted
\* lines in submission order.
C9_FormattedAppendedLogs ==
    \A k \in 1..Len(tasks) :
        (/\ tasks[k].event = "get_logs" /\ tasks[k].res = "logs" /\ AfterLogsOnly(k)
         /\ ~Supplied(tasks[k].date) /\ ~Supplied(tasks[k].content)
         /\ flag = "a" /\ FileText(file0) = <<>>
         /\ \A j \in 1..(k - 1) :
               tasks[j].fmt /\ ~HasLineFeed(tasks[j].msg) /\ Wrote(j)) =>
            tasks[k].val =
                [j \in 1..(k - 1) |->
                    LET line == Format(tasks[j].msg, tasks[j].at)
                    IN  SubSeq(line, 2, Len(line) - 1)]

\* two formatted logs of different messages and the getLogs that returned them
C9_Witness ==
    /\ Len(tasks) >= 3 /\ flag = "a"
    /\ tasks[1].fmt /\ Wrote(1) /\ tasks[2].fmt /\ Wrote(2)
    /\ ~HasLineFeed(tasks[1].msg) /\ ~HasLineFeed(tasks[2].msg)
    /\ tasks[1].msg # tasks[2].msg
    /\ tasks[3].event = "get_logs" /\ tasks[3].res = "logs"
    /\ Len(tasks[3].val) = 2

\* C10: a getLogs with at least one filter returns the entries of the file
\* that contain the content filter or contain the date filter, in file order.
C10_FilterIsOr ==
    \A i \in 1..Len(tasks) :
        LET t == tasks[i]
            all == Entries(FileText(t.seen))
        IN  (t.event = "get_logs" /\ t.res = "logs"
             /\ (Supplied(t.date) \/ Supplied(t.content))) =>
                t.val = FilterSeq(all, [k \in 1..Len(all) |->
                            \/ Supplied(t.content) /\ Contains(all[k], t.content)
                            \/ Supplied(t.date) /\ Contains(all[k], t.date)])

\* both filters given: an entry with the date and without the content is
\* returned, an entry with neither is left out
C10_Witness ==
    \E i \in 1..Len(tasks) :
        LET t == tasks[i]
            all == Entries(FileText(t.seen))
        IN  /\ t.event = "get_logs" /\ t.res = "logs"
            /\ Supplied(t.date) /\ Supplied(t.content)
            /\ Len(all) = 2 /\ Len(t.val) = 1
            /\ ~Contains(t.val[1], t.content)

\* cleanUp i and cleanUp j both overwrote the file, and no log and no other
\* cleanUp was submitted between them
CleanUpTwice(i, j) ==
    /\ i < j
    /\ tasks[i].event = "clean_up" /\ Wrote(i)
    /\ tasks[j].event = "clean_up" /\ Wrote(j)
    /\ \A k \in (i + 1)..(j - 1) : tasks[k].event = "get_logs"

\* C11 as stated: the second of two cleanUps in succession writes the text the
\* first one wrote.
C11_CleanUpIdempotent ==
    \A i \in 1..Len(tasks), j \in 1..Len(tasks) :
        CleanUpTwice(i, j) => tasks[j].buf = tasks[i].buf

\* C11 amended: the second cleanUp leaves exactly the entries the first one
\* left that are still within the retention window when the second one
\* filters, and the very same text when that is all of them.
C11_SecondCleanUpKeepsYoung ==
    \A i \in 1..Len(tasks), j \in 1..Len(tasks) :
        CleanUpTwice(i, j) =>
            LET first == Entries(tasks[i].buf)
                young == [k \in 1..Len(first) |-> WithinRetention(first[k], tasks[j].readAt)]
            IN  /\ Entries(tasks[j].buf) = FilterSeq(first, young)
                /\ (\A k \in 1..Len(first) : young[k]) => tasks[j].buf = tasks[i].buf

\* two cleanUps at different clock readings that left the same two entries
C11_Witness ==
    \E i \in 1..Len(tasks), j \in 1..Len(tasks) :
        /\ CleanUpTwice(i, j)
        /\ tasks[j].readAt > tasks[i].readAt
        /\ tasks[i].buf # <<>>
        /\ tasks[j].buf = tasks[i].buf

\* the line of log i without the line feeds around it
LineOf(i) == SubSeq(tasks[i].text, 2, Len(tasks[i].text) - 1)

\* every cleanUp between i and k that overwrote the file filtered while the
\* entry of log i was within the retention window, and there is one
CompactedYoung(i, k) ==
    /\ \E c \in (i + 1)..(k - 1) : tasks[c].event = "clean_up" /\ Wrote(c)
    /\ \A c \in (i + 1)..(k - 1) :
          (tasks[c].event = "clean_up" /\ Wrote(c)) =>
              tasks[c].readAt - tasks[i].at <= log_max_age * 1000

\* C12: a getLogs behind a formatted log and a cleanUp that ran while the
\* entry was within the retention window still returns that entry, unchanged.
C12_RoundTrip ==
    \A i \in 1..Len(tasks), k \in 1..Len(tasks) :
        (/\ i < k
         /\ tasks[i].event = "log" /\ tasks[i].fmt /\ Wrote(i)
         /\ tasks[k].event = "get_logs" /\ tasks[k].res = "logs"
         /\ CompactedYoung(i, k)) =>
            \E n \in 1..Len(tasks[k].val) : tasks[k].val[n] = LineOf(i)

\* the line the format is specified to build for message at clock reading t
\* with date delimiter dd and time delimiter td
SpecifiedLine(message, t, dd, td) ==
    <<NL, Ch("["), Num(GetDate(t), 2), Ch(dd), Num(GetMonth(t) + 1, 2), Ch(dd),
      Num(GetFullYear(t), 4), Ch(" "), Num(GetHours(t), 2), Ch(td),
      Num(GetMinutes(t), 2), Ch(td), Num(GetSeconds(t), 2), Ch("."),
      Num(GetMilliseconds(t),
          IF GetMilliseconds(t) < 10 THEN 1 ELSE IF GetMilliseconds(t) < 100 THEN 2 ELSE 3),
      Ch("]"), Ch(" "), Ch("-"), Ch(" ")>>
    \o message \o <<NL>>

\* C14: the text of a formatted log is the specified line built with the
\* store's date and time delimiters, and the store's cleanUp pattern reads
\* the clock reading of the log back from it.
C14_FormatUsesDelimiters ==
    \A i \in 1..Len(tasks) :
        (tasks[i].event = "log" /\ tasks[i].fmt) =>
            /\ tasks[i].text = SpecifiedLine(tasks[i].msg, tasks[i].at,
                                             date_delimiter, time_delimiter)
            /\ LET ma == CleanUpMatch(LineOf(i), date_delimiter, time_delimiter)
               IN  /\ ma.ok
                   /\ DateGetTime(ma.y, ma.m - 1, ma.d, ma.h, ma.mi, ma.s, ma.ms) = tasks[i].at

\* C13: a finished getLogs that was given a callback has called it exactly
\* once, with the value its promise resolved to: the logs when the query
\* succeeded, the error when it failed.
C13_DualDelivery ==
    \A i \in 1..Len(tasks) :
        (tasks[i].event = "get_logs" /\ tasks[i].cb /\ Done(i)) =>
            /\ Len(tasks[i].cbArgs) = 1
            /\ tasks[i].cbArgs[1].logs = tasks[i].val
            /\ tasks[i].cbArgs[1].err = Failed(i)

\* a step of getLogs: the call itself (queued, or refused for its date), or
\* the chain starting, or the read finishing, a get_logs task
GetLogsStep ==
    \/ rejected' # rejected
    \/ /\ Len(tasks') = Len(tasks) + 1
       /\ tasks'[Len(tasks')].event = "get_logs"
    \/ /\ Len(tasks') = Len(tasks)
       /\ \E i \in 1..Len(tasks) :
             tasks[i].event = "get_logs" /\ tasks'[i] # tasks[i]

\* C15: no step of getLogs (filtered or not, succeeding, failing or refused)
\* changes whether the file exists or what it holds.
C15_GetLogsReadOnly == [][GetLogsStep => file' = file]_vars

C15_Witness ==
    \E i \in 1..Len(tasks), j \in 1..Len(tasks) :
        /\ tasks[i].event = "get_logs" /\ tasks[i].res = "logs"
        /\ Supplied(tasks[i].content) /\ tasks[i].val # <<>>
        /\ tasks[j].event = "get_logs" /\ Failed(j)
        /\ Len(rejected) > 0
        /\ file.exists /\ file.chunks # <<>>

NoCleanUp == \A i \in 1..Len(tasks) : tasks[i].event # "clean_up"

\* what the file holds behind the first n tasks of a truncating store: the
\* text of the last of them that was written, or what it held at first
LastWritten(n) ==
    LET kept == WrotePositions(n)
    IN  IF kept = <<>> THEN FileText(file0) ELSE tasks[kept[Len(kept)]].text

\* C16: with flag "w" and no cleanUp, the file holds only the text of the
\* last log whose write succeeded, and a getLogs returns the entries of the
\* last log written before it and of no other.
C16_TruncateKeepsLast ==
    (flag = "w" /\ NoCleanUp) =>
        /\ FileText(file) = LastWritten(Len(tasks))
        /\ Len(file.chunks) <= 1
        /\ \A k \in 1..Len(tasks) :
              tasks[k].res = "logs" => tasks[k].val = Entries(LastWritten(k - 1))

\* two different logs written, then a getLogs that returns the second only
C16_Witness ==
    /\ flag = "w" /\ Len(tasks) = 3
    /\ tasks[1].event = "log" /\ Wrote(1)
    /\ tasks[2].event = "log" /\ Wrote(2)
    /\ tasks[1].text # tasks[2].text
    /\ tasks[3].res = "logs"
    /\ tasks[3].val = Entries(tasks[2].text)
    /\ tasks[3].val # Entries(tasks[1].text)

\* the file existed when log i ran: it did at first, or a log before i made it
ExistedBefore(i) ==
    \/ file0.exists
    \/ \E j \in 1..(i - 1) : tasks[j].event = "log" /\ Wrote(j)

\* C17: with flag "ax" or "wx" a log is written only when the file did not
\* exist; a log that finds the file fails, its link is fulfilled all the
\* same, nothing of it is in the file, and at most one log is ever written.
C17_ExclusiveWritesOnce ==
    flag \in {"ax", "wx"} =>
        /\ \A i \in 1..Len(tasks) :
              (tasks[i].event = "log" /\ Done(i)) =>
                  /\ Wrote(i) => ~ExistedBefore(i)
                  /\ ExistedBefore(i) =>
                        /\ Failed(i)
                        /\ tasks[i].link = "fulfilled"
                        /\ \A c \in 1..Len(file.chunks) : file.chunks[c].src # i
        /\ Cardinality({i \in 1..Len(tasks) : tasks[i].event = "log" /\ Wrote(i)}) <= 1

\* the first log makes the file, the second finds it and fails, and the
\* file still holds the first log only
C17_Witness ==
    /\ flag \in {"ax", "wx"} /\ Len(tasks) = 3
    /\ tasks[1].event = "log" /\ Wrote(1)
    /\ tasks[2].event = "log" /\ Failed(2) /\ tasks[2].link = "fulfilled"
    /\ tasks[1].text # tasks[2].text
    /\ tasks[3].res = "logs"
    /\ tasks[3].val = Entries(tasks[1].text)
    /\ FileText(file) = tasks[1].text

\* the read of cleanUp task i returns in this step
CleanUpReadReturns(i) ==
    /\ tasks[i].event = "clean_up"
    /\ tasks[i].pc = "read"
    /\ tasks'[i].pc # "read"

\* C18: a cleanUp whose read finds no file ends there; a cleanUp that ends at
\* its read leaves the file as it was, keeps the error as its result and
\* fulfils its link, so the task behind it can start; and only a log's write
\* brings the file into existence.
C18_FailedCleanUpChangesNothing ==
    [][/\ \A i \in 1..Len(tasks) :
             CleanUpReadReturns(i) =>
                 /\ ~file.exists => tasks'[i].pc = "done"
                 /\ tasks'[i].pc = "done" =>
                       /\ file' = file
                       /\ tasks'[i].res = "error"
                       /\ tasks'[i].link = "fulfilled"
       /\ (~file.exists /\ file'.exists) =>
             \E i \in 1..Len(tasks) : tasks[i].event = "log" /\ tasks[i].pc = "write"
      ]_vars

\* a cleanUp on an absent file has failed, and the log behind it was written
C18_Witness ==
    /\ ~file0.exists /\ Len(tasks) >= 2
    /\ tasks[1].event = "clean_up" /\ Failed(1) /\ tasks[1].link = "fulfilled"
    /\ tasks[1].buf = <<>>
    /\ tasks[2].event = "log" /\ Wrote(2)
    /\ Len(file.chunks) = 1 /\ file.chunks[1].src = 2

\* C19: what a formatted log has put in the file is its message stamped with
\* the clock reading of the call of log(), and the stamps of the entries of
\* the appended file never decrease from one entry to a later one.
C19_StampedAtSubmission ==
    /\ \A c \in 1..Len(file.chunks) :
          LET t == tasks[file.chunks[c].src]
          IN  (t.event = "log" /\ t.fmt) => file.chunks[c].text = Format(t.msg, t.at)
    /\ flag = "a" =>
          LET es == Entries(FileText(file))
              stamps == [p \in 1..Len(es) |-> {t \in ClockValues : StampedAt(es[p], t)}]
          IN  \A q \in 2..Len(es) : \A p \in 1..(q - 1) :
                  \A tp \in stamps[p], tq \in stamps[q] : tp <= tq

\* a formatted log called before, and written after, the read of the cleanUp
\* queued ahead of it: its entry carries the earlier clock reading, behind an
\* entry with a still earlier one
C19_Witness ==
    /\ Len(tasks) = 3
    /\ tasks[1].event = "log" /\ tasks[1].fmt /\ Wrote(1)
    /\ tasks[2].event = "clean_up" /\ Wrote(2)
    /\ tasks[3].event = "log" /\ tasks[3].fmt /\ Wrote(3)
    /\ tasks[1].at < tasks[3].at
    /\ tasks[3].at < tasks[2].readAt
    /\ Len(file.chunks) = 2
    /\ file.chunks[2].src = 3
    /\ LET es == Entries(FileText(file))
       IN  /\ Len(es) = 2
           /\ StampedAt(es[1], tasks[1].at)
           /\ StampedAt(es[2], tasks[3].at)
           /\ ~StampedAt(es[2], tasks[2].readAt)

====
